---- MODULE Spec2Model ----
(***************************************************************************)
(* Model of the Wallabag client (src/src/wallabag_client.py) and of the    *)
(* tool adapter that wraps it (src/src/server.py).                         *)
(*                                                                         *)
(* Python values are modelled as follows.  An Optional[str] is a string,   *)
(* with the reserved string None standing for Python's None.  A JSON value *)
(* is a tagged record: [t |-> "null"], [t |-> "str", v |-> s],             *)
(* [t |-> "bool", v |-> b], [t |-> "num", v |-> n], [t |-> "arr", v |-> q] *)
(* or [t |-> "obj", v |-> f] with f a function from keys to JSON values.   *)
(* An asyncio task runs without interleaving up to its next await, so one  *)
(* action is the code between two suspension points.                       *)
(***************************************************************************)
EXTENDS Integers, Sequences, FiniteSets, TLC

\* ------------------------------------------------------------- bounds
\* Calls (of client methods, or of tools) made in all, over all tasks.
MaxCalls == 3
\* Largest whole second of a `since` timestamp drawn for a request.
MaxSinceSec == 1
\* Largest `count` drawn for a request.
MaxCount == 1

\* The asyncio tasks that use the client (or the tools) concurrently.
Tasks == {"t1", "t2"}

\* ------------------------------------------------------- Python values
None == "<None>"

\* bool(v) of an Optional[str]
Truthy(v) == v # None /\ v # ""

\* `a or b`
Or(a, b) == IF Truthy(a) THEN a ELSE b

\* An Optional[int] or Optional[datetime]: Nothing is None, Some(v) is v.
Nothing == <<>>
Some(v) == <<v>>

Digit == <<"0", "1", "2", "3", "4", "5", "6", "7", "8", "9">>

\* str(n) of a non-negative int
RECURSIVE Str(_)
Str(n) == IF n < 10 THEN Digit[n + 1] ELSE Str(n \div 10) \o Digit[(n % 10) + 1]

\* n written with exactly k digits (leading zeros kept)
RECURSIVE Pad(_, _)
Pad(n, k) == IF k = 0 THEN "" ELSE Pad(n \div 10, k - 1) \o Digit[(n % 10) + 1]

\* The k-digit fraction n with its trailing zeros dropped (n > 0)
RECURSIVE StripZeros(_, _)
StripZeros(n, k) == IF n % 10 = 0 THEN StripZeros(n \div 10, k - 1) ELSE Pad(n, k)

\* A datetime is the timedelta from the epoch to it: days, seconds and
\* microseconds.  datetime.timestamp() is its total_seconds(), a float, kept
\* here as its whole seconds and its millionths.
timestamp(dt) ==
    [sec |-> dt.days * 86400 + dt.seconds, usec |-> dt.microseconds]

\* str(f) of a float: the shortest decimal that reads back as f, which
\* always has a fractional part ("5.0", "0.5").
FloatStr(f) ==
    Str(f.sec) \o "." \o (IF f.usec = 0 THEN "0" ELSE StripZeros(f.usec, 6))

\* ------------------------------------------------------------- JSON
JNull == [t |-> "null"]
JStr(s) == [t |-> "str", v |-> s]
JBool(b) == [t |-> "bool", v |-> b]
JNum(n) == [t |-> "num", v |-> n]
JArr(q) == [t |-> "arr", v |-> q]
JObj(f) == [t |-> "obj", v |-> f]
EmptyDict == JObj(<<>>)

IsDict(j) == j.t = "obj"

\* d.get(key, default) of a dict d
Get(d, key, default) == IF key \in DOMAIN d.v THEN d.v[key] ELSE default

\* The Python value of a JSON string or null, as an Optional[str]
PyStr(j) == IF j.t = "null" THEN None ELSE j.v

\* What a call does: it returns a value or raises an exception.
Return(v) == [t |-> "return", v |-> v]
Raise(exc, msg) == [t |-> "raise", exc |-> exc, msg |-> msg]

\* ---------------------------------------------------------- Article
RequiredFields == {"id", "title", "url", "content", "created_at", "updated_at"}
NullableFields ==
    {"content", "reading_time", "domain_name", "preview_picture", "http_status"}
BoolFields == {"is_archived", "is_starred"}
ArticleFields == RequiredFields \cup NullableFields \cup BoolFields

\* The default of a field that has one.
FieldDefault(f) == IF f \in BoolFields THEN JBool(FALSE) ELSE JNull

\* Article(**data): pydantic's validation of the keyword arguments.  A
\* field declared without a default must be given, Optional or not; null
\* is accepted by the Optional fields only; unknown keys are ignored.
Article(data) ==
    IF ~IsDict(data)
    THEN Raise("TypeError", "argument after ** must be a mapping")
    ELSE IF \E f \in RequiredFields : f \notin DOMAIN data.v
    THEN Raise("ValidationError", "Field required")
    ELSE IF \E f \in (ArticleFields \ NullableFields) \cap DOMAIN data.v :
                data.v[f] = JNull
    THEN Raise("ValidationError", "Input should be a valid value")
    ELSE Return([f \in ArticleFields |->
                    IF f \in DOMAIN data.v THEN data.v[f] ELSE FieldDefault(f)])

\* ------------------------------------------------------------ state
VARIABLES
    env,        \* os.environ, the WALLABAG_* entries (None: not set)
    client,     \* server.py's global `client`: NoInst or a WallabagClient
    self,       \* the WallabagClient instances: base_url, access_token, _client
    pc,         \* per task: "idle", "awaiting", "closing" or "done"
    call,       \* per task: the client method it is in (op, inst, args)
    tool,       \* per task: the tool it is in, [name |-> "none"] outside tools
    req,        \* per task: the HTTP request it awaits
    pending,    \* per task: what _request is about to leave with, while closing
    result,     \* per task: what its last call returned or raised
    opened,     \* the locally created transports that are open
    ext_closed, \* whether aclose() was called on the caller's transport
    ncalls,     \* calls started so far
    nreq,       \* per task: requests issued by its current method call
    pre,        \* per task: what held when its current method call began
    got,        \* per task: the answer its last request got
    last_ok,    \* per instance: the token its last successful authenticate got
    fin,        \* the input of a function applied on its own (SpecArticle)
    fout        \* its output

vars == <<env, client, self, pc, call, tool, req, pending, result, opened,
          ext_closed, ncalls, nreq, pre, got, last_ok, fin, fout>>

EnvCreds == [client_id |-> "WALLABAG_CLIENT_ID",
             client_secret |-> "WALLABAG_CLIENT_SECRET",
             username |-> "WALLABAG_USERNAME",
             password |-> "WALLABAG_PASSWORD"]
Creds == DOMAIN EnvCreds
EnvNames == {"WALLABAG_BASE_URL"} \cup {EnvCreds[c] : c \in Creds}

getenv(name) == env[name]

NoInst == <<>>
MainInst == <<"main", 0>>
NoTransport == <<>>
CallerTransport == <<"caller", 0, "supplied">>
NoReq == [method |-> "none"]
NoCall == [op |-> "none"]
NoTool == [name |-> "none"]
NoResult == [t |-> "none"]

ReadOps == {"get_single_article", "get_articles", "search_articles"}

\* ------------------------------------------------ HTTP, as the client sees it
NotJson == [t |-> "notjson"]

\* A response body: its text and what json.loads makes of it.
Body(text, val) == [text |-> text, val |-> val]
\* The server's answer, or no answer at all (httpx.RequestError).
Http(status, body) == [t |-> "http", status |-> status, body |-> body]
NetErr(msg) == [t |-> "neterr", msg |-> msg]

\* Response.is_success
IsSuccess(status) == 200 <= status /\ status <= 299

\* Response.json()
Json(response) ==
    IF response.body.val = NotJson
    THEN Raise("JSONDecodeError", "Expecting value")
    ELSE Return(response.body.val)

\* ------------------------------------------------- WallabagClient, pure parts
\* WallabagClient(base_url, client)
NewClient(base_url, transport) ==
    LET url == Or(base_url, getenv("WALLABAG_BASE_URL")) IN
    IF ~Truthy(url)
    THEN Raise("WallabagConfigError", "Wallabag base URL is not set.")
    ELSE Return([base_url |-> url, access_token |-> None, _client |-> transport])

\* _request, from the response on: raise_for_status and the except clauses.
RequestOutcome(resp) ==
    IF resp.t = "neterr"
    THEN Raise("WallabagApiError", "Request failed: " \o resp.msg)
    ELSE IF ~IsSuccess(resp.status)
    THEN Raise("WallabagApiError",
               "API request failed: " \o Str(resp.status) \o " - " \o resp.body.text)
    ELSE Return(resp)

\* The test the wrong way round.
ReleasesCallersTransport(own) == own # NoTransport

\* _request's finally: `if not self._client`, the client closes the transport.
ReleasesTransport(own) == own = NoTransport

\* authenticate's `data`.
AuthData(args) ==
    [grant_type |-> "password",
     client_id |-> Or(args.client_id, getenv("WALLABAG_CLIENT_ID")),
     client_secret |-> Or(args.client_secret, getenv("WALLABAG_CLIENT_SECRET")),
     username |-> Or(args.username, getenv("WALLABAG_USERNAME")),
     password |-> Or(args.password, getenv("WALLABAG_PASSWORD"))]

\* The check of the first field alone.
AuthMissingClientId(data) == data.client_id = None

\* authenticate's check of `data`.
AuthMissing(data) ==
    \/ data.client_id = None
    \/ data.client_secret = None
    \/ data.username = None
    \/ data.password = None

\* authenticate, from _request's outcome on: what it returns or raises, and
\* what it assigns to self.access_token (Nothing: no assignment).
AfterAuth(o) ==
    IF o.t = "raise"
    THEN [res |-> Raise("WallabagAuthError", "Authentication failed: " \o o.msg),
          store |-> Nothing]
    ELSE LET token_data == Json(o.v) IN
         IF token_data.t = "raise"
         THEN [res |-> Raise("WallabagAuthError",
                             "Failed to parse authentication response: "
                                 \o token_data.msg),
               store |-> Nothing]
         ELSE IF ~IsDict(token_data.v)
         THEN [res |-> Raise("AttributeError", "object has no attribute 'get'"),
               store |-> Nothing]
         ELSE LET token == PyStr(Get(token_data.v, "access_token", JNull)) IN
              [res |-> IF ~Truthy(token)
                       THEN Raise("WallabagAuthError",
                                  "Authentication successful, but no access token received.")
                       ELSE Return(JBool(TRUE)),
               store |-> Some(token)]

\* The check left out.
TokenCheckDropped(token) == FALSE

\* The read operations' `if not self.access_token`.
TokenMissing(token) == ~Truthy(token)

\* The scheme left out of the header.
BareTokenHeaders(token) == [Authorization |-> token]

\* headers = {"Authorization": f"Bearer {self.access_token}"}
BearerHeaders(token) == [Authorization |-> "Bearer " \o token]

\* The count tested against None only, so that a count of 0 is sent as "0".
PerPageOfAnyCount(count) ==
    IF count # Nothing THEN Str(count[1]) ELSE "100"

\* "perPage": str(req.count) if req.count else "100"
PerPage(count) ==
    IF count # Nothing /\ count[1] # 0 THEN Str(count[1]) ELSE "100"

\* "since": str(req.since.timestamp()) if req.since else "0"
\* (a datetime is always truthy)
Since(since) ==
    IF since # Nothing THEN FloatStr(timestamp(since[1])) ELSE "0"

\* get_articles' params
ArticlesParams(r) ==
    LET params == [archive |-> IF r.is_archived THEN "1" ELSE "0",
                   perPage |-> PerPage(r.count),
                   since |-> Since(r.since),
                   order |-> r.sort_order,
                   detail |-> IF r.include_content THEN "full" ELSE "metadata"]
    IN IF Truthy(r.domain) THEN params @@ [domain_name |-> r.domain] ELSE params

\* search_articles' params
SearchParams(r) == [term |-> r.search_term, perPage |-> PerPage(r.count)]

\* [Article(**article) for article in articles_data]
RECURSIVE ArticleList(_)
ArticleList(q) ==
    IF q = <<>> THEN Return(<<>>)
    ELSE LET a == Article(Head(q)) IN
         IF a.t = "raise" THEN a
         ELSE LET rest == ArticleList(Tail(q)) IN
              IF rest.t = "raise" THEN rest ELSE Return(<<a.v>> \o rest.v)

\* response_data.get("_embedded", {}).get("items", []), then the list of Articles
Items(response_data) ==
    IF ~IsDict(response_data)
    THEN Raise("AttributeError", "object has no attribute 'get'")
    ELSE LET embedded == Get(response_data, "_embedded", EmptyDict) IN
         IF ~IsDict(embedded)
         THEN Raise("AttributeError", "object has no attribute 'get'")
         ELSE LET articles_data == Get(embedded, "items", JArr(<<>>)) IN
              IF articles_data.t # "arr"
              THEN Raise("TypeError", "object is not iterable")
              ELSE ArticleList(articles_data.v)

\* A read operation, from _request's outcome on.
AfterRead(op, o) ==
    IF o.t = "raise" THEN o
    ELSE LET response_data == Json(o.v) IN
         IF response_data.t = "raise"
         THEN Raise("WallabagApiError",
                    "Failed to parse response: " \o response_data.msg)
         ELSE IF op = "get_single_article" THEN Article(response_data.v)
         ELSE Items(response_data.v)

\* The URL and the params of a read operation.
ReadUrl(base_url, op, r) ==
    CASE op = "get_single_article" -> base_url \o "/api/entries/" \o Str(r.id)
      [] op = "get_articles" -> base_url \o "/api/entries"
      [] op = "search_articles" -> base_url \o "/api/search"

ReadParams(op, r) ==
    CASE op = "get_single_article" -> <<>>
      [] op = "get_articles" -> ArticlesParams(r)
      [] op = "search_articles" -> SearchParams(r)

\* ------------------------------------------------------ steps of a task
\* The variables a step may change, as values handed from one part of the
\* step to the next.
Cur ==
    [self |-> self, client |-> client, opened |-> opened, last_ok |-> last_ok,
     call |-> call, tool |-> tool, nreq |-> nreq, pre |-> pre]

Commit(cur) ==
    /\ self' = cur.self
    /\ client' = cur.client
    /\ opened' = cur.opened
    /\ last_ok' = cur.last_ok
    /\ call' = cur.call
    /\ tool' = cur.tool
    /\ nreq' = cur.nreq
    /\ pre' = cur.pre

\* The task's call ends: it returns or raises r to its caller.
Finished(t, r, cur) ==
    /\ Commit(cur)
    /\ pc' = [pc EXCEPT ![t] = "done"]
    /\ result' = [result EXCEPT ![t] = r]
    /\ req' = [req EXCEPT ![t] = NoReq]
    /\ pending' = [pending EXCEPT ![t] = NoResult]

\* _request up to `await client.request(...)`: the transport is chosen
\* (`self._client or httpx.AsyncClient()`) and the request goes out.
Send(t, i, method, url, params, headers, cur) ==
    LET own == cur.self[i]._client
        transport == IF own # NoTransport THEN own
                     ELSE <<t, ncalls, cur.call[t].op>>
    IN /\ Commit([cur EXCEPT !.opened = IF own # NoTransport THEN @
                                        ELSE @ \cup {transport},
                             !.nreq[t] = @ + 1])
       /\ req' = [req EXCEPT ![t] = [method |-> method, url |-> url,
                                     params |-> params, headers |-> headers,
                                     transport |-> transport]]
       /\ pc' = [pc EXCEPT ![t] = "awaiting"]
       /\ pending' = [pending EXCEPT ![t] = NoResult]
       /\ result' = [result EXCEPT ![t] = NoResult]

\* json.dumps({"success": ...}) of a tool: the try block's value, or the
\* except clause's.
Envelope(name, r) ==
    IF r.t = "raise"
    THEN Return(JObj([success |-> JBool(FALSE), error |-> JStr(r.msg)]))
    ELSE Return(JObj([success |-> JBool(TRUE), payload |-> r.v]))

\* A read operation ends with r: directly, or inside a tool's try block.
ReadEnd(t, r, cur) ==
    IF cur.tool[t].name = "none"
    THEN Finished(t, r, cur)
    ELSE Finished(t, Envelope(cur.tool[t].name, r), cur)

\* A read operation of instance i, from its first line to its first await.
StartRead(t, i, op, r, cur0) ==
    LET token == cur0.self[i].access_token
        cur == [cur0 EXCEPT !.call[t] = [op |-> op, inst |-> i, args |-> r],
                            !.nreq[t] = 0,
                            !.pre[t] = [token |-> token, ok |-> cur0.last_ok[i]]]
    IN IF TokenMissing(token)
       THEN ReadEnd(t, Raise("WallabagAuthError",
                             "Access token is not set. Please authenticate first."),
                    cur)
       ELSE Send(t, i, "GET", ReadUrl(cur.self[i].base_url, op, r),
                 ReadParams(op, r), BearerHeaders(token), cur)

\* What a tool calls in its try block.
ToolOp(name) ==
    CASE name = "get_single_wallabag_article" -> "get_single_article"
      [] name = "get_wallabag_articles" -> "get_articles"
      [] name = "search_articles" -> "search_articles"

\* datetime.now(), when a tool reads it.
Nows == [days : {19358}, seconds : 0..MaxSinceSec, microseconds : {0, 500000}]

\* now - timedelta(days=n)
DaysBefore(now, n) == [now EXCEPT !.days = @ - n]

\* The request a tool builds from its arguments a.
ToolRequest(name, a, now) ==
    CASE name = "get_single_wallabag_article" -> [id |-> a.id]
      [] name = "get_wallabag_articles" ->
             [is_archived |-> a.is_archived,
              since |-> IF a.since_days_ago = Nothing THEN Nothing
                        ELSE Some(DaysBefore(now, a.since_days_ago[1])),
              domain |-> a.domain, count |-> a.count,
              sort_order |-> a.sort_order, include_content |-> a.include_content]
      [] name = "search_articles" ->
             [search_term |-> a.search_term, count |-> a.count]

\* authenticate of instance i ends with a.res, having assigned a.store.  In
\* initialize_client an exception leaves the tool, and a return is followed
\* by `client = ...` and the tool's try block.
AuthEnd(t, i, a, cur0) ==
    LET cur == IF a.store = Nothing THEN cur0
               ELSE [cur0 EXCEPT !.self[i].access_token = a.store[1],
                                 !.last_ok[i] =
                                     IF a.res.t = "return" THEN a.store[1] ELSE @]
    IN IF cur.tool[t].name = "none" \/ a.res.t = "raise"
       THEN Finished(t, a.res, cur)
       ELSE \E now \in Nows :
                StartRead(t, i, ToolOp(cur.tool[t].name),
                          ToolRequest(cur.tool[t].name, cur.tool[t].args, now),
                          [cur EXCEPT !.client = i])

\* authenticate of instance i, from its first line to its first await.
StartAuth(t, i, args, cur0) ==
    LET data == AuthData(args)
        cur == [cur0 EXCEPT !.call[t] = [op |-> "authenticate", inst |-> i,
                                         args |-> args],
                            !.nreq[t] = 0,
                            !.pre[t] = [token |-> cur0.self[i].access_token,
                                        ok |-> cur0.last_ok[i]]]
    IN IF AuthMissing(data)
       THEN AuthEnd(t, i,
                    [res |-> Raise("WallabagConfigError",
                                   "Missing required authentication parameters."),
                     store |-> Nothing],
                    cur)
       ELSE Send(t, i, "GET", cur.self[i].base_url \o "/oauth/v2/token",
                 data, <<>>, cur)

\* A failed request is sent once more.
AfterRequestWithRetry(t, o, cur) ==
    IF o.t = "raise" /\ cur.nreq[t] < 2
    THEN Send(t, call[t].inst, req[t].method, req[t].url, req[t].params,
              req[t].headers, cur)
    ELSE IF call[t].op = "authenticate"
    THEN AuthEnd(t, call[t].inst, AfterAuth(o), cur)
    ELSE ReadEnd(t, AfterRead(call[t].op, o), cur)

\* The method the task is in goes on after _request has ended with o.
AfterRequest(t, o, cur) ==
    IF call[t].op = "authenticate"
    THEN AuthEnd(t, call[t].inst, AfterAuth(o), cur)
    ELSE ReadEnd(t, AfterRead(call[t].op, o), cur)

\* ------------------------------------------------------------ inputs
NoArgs == [c \in Creds |-> None]
GivenArgs == [c \in Creds |-> c \o "_arg"]
\* authenticate's arguments: none, all four, or all but one (left out or "").
AuthArgs ==
    {NoArgs, GivenArgs}
        \cup {[GivenArgs EXCEPT ![c] = v] : c \in Creds, v \in {None, ""}}

BaseUrl == "http://wallabag"
NoEnv == [n \in EnvNames |-> None]
FullEnv == [n \in EnvNames |-> IF n = "WALLABAG_BASE_URL" THEN BaseUrl ELSE n \o "_env"]
\* The environment: nothing set, everything set, or all but one entry
\* (not set, or set to "").
Envs ==
    {NoEnv, FullEnv}
        \cup {[FullEnv EXCEPT ![n] = v] : n \in EnvNames, v \in {None, ""}}

\* 1970-01-01 and 2023-01-01, and the seconds and half seconds after them.
Datetimes ==
    [days : {0, 19358}, seconds : 0..MaxSinceSec, microseconds : {0, 500000}]
Counts == {Nothing} \cup {Some(n) : n \in 0..MaxCount}

DefaultArticlesRequest ==
    [is_archived |-> FALSE, since |-> Nothing, domain |-> None, count |-> Nothing,
     sort_order |-> "desc", include_content |-> FALSE]
ArticlesRequests ==
    {DefaultArticlesRequest}
        \cup {[DefaultArticlesRequest EXCEPT !.since = Some(d)] : d \in Datetimes}
        \cup {[DefaultArticlesRequest EXCEPT !.count = c] : c \in Counts}
        \cup {[DefaultArticlesRequest EXCEPT !.domain = ""],
              [is_archived |-> TRUE, since |-> Some([days |-> 19358, seconds |-> 0, microseconds |-> 0]),
               domain |-> "test.dev", count |-> Some(MaxCount),
               sort_order |-> "asc", include_content |-> TRUE]}
SearchRequests == [search_term : {"python"}, count : Counts]
SingleRequests == [id : {59}]

\* What the server may answer.
FullArticle ==
    JObj([id |-> JNum(1), title |-> JStr("A"), url |-> JStr("http://x"),
          content |-> JStr("c"), created_at |-> JStr("2023-01-01T10:00:00Z"),
          updated_at |-> JStr("2023-01-01T11:00:00Z"), reading_time |-> JNum(5),
          domain_name |-> JStr("x"), preview_picture |-> JNull,
          http_status |-> JStr("200"), is_archived |-> JBool(FALSE),
          is_starred |-> JBool(TRUE)])
Only(d, keys) == JObj([k \in keys |-> d.v[k]])
Without(d, keys) == Only(d, DOMAIN d.v \ keys)

Embedded(j) == JObj([_embedded |-> j])
ItemsOf(q) == Embedded(JObj([items |-> JArr(q)]))

FailedResponses ==
    {NetErr("connection refused"),
     Http(401, Body("denied", NotJson)),
     Http(500, Body("Internal Server Error", NotJson))}
Tokens == {"tokA", "tokB"}
AuthResponses ==
    FailedResponses
        \cup {Http(200, Body("not json", NotJson)),
              Http(200, Body("[]", JArr(<<>>))),
              Http(200, Body("{\"message\": \"ok\"}", JObj([message |-> JStr("ok")]))),
              Http(200, Body("{\"access_token\": null}", JObj([access_token |-> JNull]))),
              Http(200, Body("{\"access_token\": \"\"}", JObj([access_token |-> JStr("")])))}
        \cup {Http(200, Body("{\"access_token\": \"" \o k \o "\"}",
                             JObj([access_token |-> JStr(k)]))) : k \in Tokens}
SingleResponses ==
    FailedResponses
        \cup {Http(200, Body("not json", NotJson)),
              Http(200, Body("null", JNull)),
              Http(200, Body("{all fields}", FullArticle)),
              Http(200, Body("{no content}", Without(FullArticle, {"content"}))),
              Http(200, Body("{no id}", Without(FullArticle, {"id"})))}
ListResponses ==
    FailedResponses
        \cup {Http(200, Body("not json", NotJson)),
              Http(200, Body("[]", JArr(<<>>))),
              Http(200, Body("{}", EmptyDict)),
              Http(200, Body("{\"_embedded\": null}", Embedded(JNull))),
              Http(200, Body("{\"_embedded\": {}}", Embedded(EmptyDict))),
              Http(200, Body("{\"_embedded\": {\"items\": []}}", ItemsOf(<<>>))),
              Http(200, Body("{one item}", ItemsOf(<<FullArticle>>))),
              Http(200, Body("{one item, no content}",
                             ItemsOf(<<Without(FullArticle, {"content"})>>)))}

Responses(op) ==
    CASE op = "authenticate" -> AuthResponses
      [] op = "get_single_article" -> SingleResponses
      [] op = "get_articles" -> ListResponses
      [] op = "search_articles" -> ListResponses

\* ----------------------------------------------------------- actions
CanStart(t) == pc[t] \in {"idle", "done"} /\ ncalls < MaxCalls

\* A task calls client.authenticate(**args) on the session's client.
Authenticate(t, args) ==
    /\ CanStart(t)
    /\ ncalls' = ncalls + 1
    /\ got' = [got EXCEPT ![t] = NoResult]
    /\ StartAuth(t, MainInst, args, Cur)
    /\ UNCHANGED <<env, ext_closed, fin, fout>>

\* A task calls one of the three read operations on the session's client.
Read(t, op, r) ==
    /\ CanStart(t)
    /\ ncalls' = ncalls + 1
    /\ got' = [got EXCEPT ![t] = NoResult]
    /\ StartRead(t, MainInst, op, r, Cur)
    /\ UNCHANGED <<env, ext_closed, fin, fout>>

GetSingleArticle(t, r) == Read(t, "get_single_article", r)
GetArticles(t, r) == Read(t, "get_articles", r)
SearchArticles(t, r) == Read(t, "search_articles", r)

\* The awaited request ends with resp; _request runs to `finally`, where it
\* awaits aclose() of a transport of its own, or else leaves, and the
\* method goes on.
Respond(t, resp) ==
    /\ pc[t] = "awaiting"
    /\ got' = [got EXCEPT ![t] = resp]
    /\ IF ReleasesTransport(self[call[t].inst]._client)
       THEN /\ pc' = [pc EXCEPT ![t] = "closing"]
            /\ pending' = [pending EXCEPT ![t] = RequestOutcome(resp)]
            /\ UNCHANGED <<self, client, opened, last_ok, call, tool, nreq, pre,
                           req, result>>
       ELSE AfterRequest(t, RequestOutcome(resp), Cur)
    /\ UNCHANGED <<env, ext_closed, ncalls, fin, fout>>

\* aclose() of the request's transport has ended; _request leaves and the
\* method goes on.
Close(t) ==
    /\ pc[t] = "closing"
    /\ ext_closed' = (ext_closed \/ req[t].transport = CallerTransport)
    /\ AfterRequest(t, pending[t], [Cur EXCEPT !.opened = @ \ {req[t].transport}])
    /\ UNCHANGED <<env, ncalls, got, fin, fout>>

TaskInit ==
    /\ pc = [t \in Tasks |-> "idle"]
    /\ call = [t \in Tasks |-> NoCall]
    /\ tool = [t \in Tasks |-> NoTool]
    /\ req = [t \in Tasks |-> NoReq]
    /\ pending = [t \in Tasks |-> NoResult]
    /\ result = [t \in Tasks |-> NoResult]
    /\ nreq = [t \in Tasks |-> 0]
    /\ pre = [t \in Tasks |-> [token |-> None, ok |-> None]]
    /\ got = [t \in Tasks |-> NoResult]
    /\ opened = {}
    /\ ext_closed = FALSE
    /\ ncalls = 0
    /\ fin = NoResult
    /\ fout = NoResult

\* A session's client: constructed with a base URL, with or without a
\* transport of the caller's, and not yet authenticated.
SessionInit(envs, transports) ==
    /\ env \in envs
    /\ client = NoInst
    /\ \E transport \in transports :
           self = (MainInst :> NewClient(BaseUrl, transport).v)
    /\ last_ok = (MainInst :> None)
    /\ TaskInit

\* The inputs a specification draws from: the arguments of the calls and
\* the answers of the server.
AllInputs ==
    [args |-> AuthArgs, single |-> SingleRequests, articles |-> ArticlesRequests,
     search |-> SearchRequests, resp |-> [op \in ReadOps \cup {"authenticate"} |->
                                            Responses(op)]]

\* Fewer of them, for the runs in which the calls of two tasks interleave.
CoreResponses(op) ==
    {NetErr("connection refused"), Http(500, Body("Internal Server Error", NotJson))}
        \cup CASE op = "authenticate" ->
                      {Http(200, Body("{\"message\": \"ok\"}",
                                      JObj([message |-> JStr("ok")])))}
                          \cup {r \in AuthResponses :
                                    /\ r.t = "http"
                                    /\ r.body.val \in {JObj([access_token |-> JStr(k)]) :
                                                          k \in Tokens}}
               [] op = "get_single_article" ->
                      {Http(200, Body("{all fields}", FullArticle))}
               [] op \in {"get_articles", "search_articles"} ->
                      {Http(200, Body("{one item}", ItemsOf(<<FullArticle>>)))}
CoreInputs ==
    [args |-> {NoArgs, GivenArgs}, single |-> SingleRequests,
     articles |-> {DefaultArticlesRequest},
     search |-> [search_term : {"python"}, count : {Nothing}],
     resp |-> [op \in ReadOps \cup {"authenticate"} |-> CoreResponses(op)]]

Answers(in, t) == IF pc[t] = "awaiting" THEN in.resp[call[t].op] ELSE {}

Step(t, in) ==
    \/ \E args \in in.args : Authenticate(t, args)
    \/ \E r \in in.single : GetSingleArticle(t, r)
    \/ \E r \in in.articles : GetArticles(t, r)
    \/ \E r \in in.search : SearchArticles(t, r)
    \/ \E resp \in Answers(in, t) : Respond(t, resp)
    \/ Close(t)

\* Two tasks share one session's client.
Init == SessionInit({NoEnv, FullEnv}, {NoTransport, CallerTransport})
Next == \E t \in Tasks : Step(t, CoreInputs)
Spec == Init /\ [][Next]_vars

\* One task makes its calls one after the other, over all the inputs.
InitSeq == SessionInit(Envs, {NoTransport})
NextSeq == Step("t1", AllInputs)
SpecSeq == InitSeq /\ [][NextSeq]_vars

\* --------------------------------------------------------- the tools
DefaultArticlesArgs ==
    [is_archived |-> FALSE, domain |-> None, since_days_ago |-> Nothing,
     count |-> Nothing, sort_order |-> "desc", include_content |-> FALSE]
ToolArgs(name) ==
    CASE name = "get_single_wallabag_article" -> [id : {59}]
      [] name = "get_wallabag_articles" ->
             {DefaultArticlesArgs,
              [DefaultArticlesArgs EXCEPT !.since_days_ago = Some(1)]}
      [] name = "search_articles" -> [search_term : {"python"}, count : {Nothing}]

\* A task invokes a tool.  While the global `client` is None the tool first
\* awaits initialize_client(), outside its try block: WallabagClient(), then
\* authenticate(), both from the environment alone.
Tool(t, name, a) ==
    /\ CanStart(t)
    /\ ncalls' = ncalls + 1
    /\ got' = [got EXCEPT ![t] = NoResult]
    /\ LET cur == [Cur EXCEPT !.tool[t] = [name |-> name, args |-> a]] IN
       IF client = NoInst
       THEN LET made == NewClient(None, NoTransport)
                i == <<t, ncalls>>
            IN IF made.t = "raise"
               THEN Finished(t, made, [cur EXCEPT !.call[t] = NoCall])
               ELSE StartAuth(t, i, NoArgs,
                              [cur EXCEPT !.self = @ @@ (i :> made.v),
                                          !.last_ok = @ @@ (i :> None)])
       ELSE \E now \in Nows :
                StartRead(t, client, ToolOp(name), ToolRequest(name, a, now), cur)
    /\ UNCHANGED <<env, ext_closed, fin, fout>>

GetSingleWallabagArticle(t, a) == Tool(t, "get_single_wallabag_article", a)
GetWallabagArticles(t, a) == Tool(t, "get_wallabag_articles", a)
SearchArticlesTool(t, a) == Tool(t, "search_articles", a)

\* The server process: no client yet, and the tools invoked by two tasks.
InitTools ==
    /\ env \in {NoEnv, FullEnv, [FullEnv EXCEPT !["WALLABAG_PASSWORD"] = None]}
    /\ client = NoInst
    /\ self = <<>>
    /\ last_ok = <<>>
    /\ TaskInit

NextTools ==
    \E t \in Tasks :
        \/ \E a \in ToolArgs("get_single_wallabag_article") :
               GetSingleWallabagArticle(t, a)
        \/ \E a \in ToolArgs("get_wallabag_articles") : GetWallabagArticles(t, a)
        \/ \E a \in ToolArgs("search_articles") : SearchArticlesTool(t, a)
        \/ \E resp \in Answers(CoreInputs, t) : Respond(t, resp)
        \/ Close(t)

SpecTools == InitTools /\ [][NextTools]_vars

\* ------------------------------------------- Article(**data) on its own
OptionalFields ==
    {"content", "reading_time", "domain_name", "preview_picture", "http_status",
     "is_archived", "is_starred"}

\* A server object with the other five fields and any of these seven.
InitArticle ==
    /\ \E omitted \in SUBSET OptionalFields :
           fin = [omitted |-> omitted, data |-> Without(FullArticle, omitted)]
    /\ fout = NoResult
    /\ env = NoEnv
    /\ client = NoInst
    /\ self = <<>>
    /\ last_ok = <<>>
    /\ pc = [t \in Tasks |-> "idle"]
    /\ call = [t \in Tasks |-> NoCall]
    /\ tool = [t \in Tasks |-> NoTool]
    /\ req = [t \in Tasks |-> NoReq]
    /\ pending = [t \in Tasks |-> NoResult]
    /\ result = [t \in Tasks |-> NoResult]
    /\ nreq = [t \in Tasks |-> 0]
    /\ pre = [t \in Tasks |-> [token |-> None, ok |-> None]]
    /\ got = [t \in Tasks |-> NoResult]
    /\ opened = {}
    /\ ext_closed = FALSE
    /\ ncalls = 0

Deserialize ==
    /\ fout = NoResult
    /\ fout' = Article(fin.data)
    /\ UNCHANGED <<env, client, self, pc, call, tool, req, pending, result, opened,
                   ext_closed, ncalls, nreq, pre, got, last_ok, fin>>

SpecArticle == InitArticle /\ [][Deserialize]_vars

\* ------------------------------------------------------------ claims
Raised(r, exc) == r.t = "raise" /\ r.exc = exc
InFlight(t) == pc[t] \in {"awaiting", "closing"}

\* C1: a read operation called while the client's access_token is not set
\* (None or empty) raises WallabagAuthError at once: the call is over in the
\* step that began it, and it has issued no request and got no answer.
C1_ReadWithoutTokenFailsFast ==
    \A t \in Tasks :
        (call[t].op \in ReadOps /\ ~Truthy(pre[t].token))
            => /\ pc[t] = "done"
               /\ Raised(result[t], "WallabagAuthError")
               /\ nreq[t] = 0
               /\ got[t] = NoResult
               /\ req[t] = NoReq

\* Two read operations were called without a token.
C1_Witness ==
    /\ call["t1"].op = "get_articles"
    /\ call["t2"].op = "get_single_article"
    /\ \A t \in Tasks : pc[t] = "done" /\ ~Truthy(pre[t].token)

\* C4: authenticate takes each credential from its argument when one is
\* given (not None, not empty) and from the environment otherwise: these are
\* the values the request carries.  When a credential is not given as
\* argument and not set in the environment, the call raises
\* WallabagConfigError in the step that began it, without a request.
C4_CredentialsResolved ==
    \A t \in Tasks :
        call[t].op = "authenticate" =>
            LET args == call[t].args IN
            /\ (\E c \in Creds : args[c] \in {None, ""} /\ env[EnvCreds[c]] = None)
                   => /\ pc[t] = "done"
                      /\ Raised(result[t], "WallabagConfigError")
                      /\ nreq[t] = 0
                      /\ req[t] = NoReq
            /\ pc[t] = "awaiting"
                   => \A c \in Creds :
                          req[t].params[c] =
                              IF args[c] \notin {None, ""} THEN args[c]
                              ELSE env[EnvCreds[c]]

\* authenticate was called with three credentials, the fourth being set
\* nowhere.
C4_Witness ==
    /\ call["t1"].op = "authenticate"
    /\ pc["t1"] = "done"
    /\ call["t1"].args = [GivenArgs EXCEPT !["password"] = None]
    /\ env = [FullEnv EXCEPT !["WALLABAG_PASSWORD"] = None]
    /\ Raised(result["t1"], "WallabagConfigError")

\* C5: a request that a read operation issues carries the header
\* Authorization: Bearer <token>, <token> being the token that the most
\* recent successful authenticate had obtained when the request went out.
C5_BearerIsLatestToken ==
    \A t \in Tasks :
        (call[t].op \in ReadOps /\ InFlight(t))
            => /\ Truthy(pre[t].ok)
               /\ req[t].headers = [Authorization |-> "Bearer " \o pre[t].ok]

\* A read went out with the first token, and the session was authenticated
\* again, with another token, while it was in flight.
C5_Witness ==
    /\ pc["t1"] = "awaiting"
    /\ call["t1"].op = "get_articles"
    /\ req["t1"].headers = [Authorization |-> "Bearer tokA"]
    /\ pc["t2"] = "done"
    /\ call["t2"].op = "authenticate"
    /\ result["t2"] = Return(JBool(TRUE))
    /\ self[MainInst].access_token = "tokB"

\* C6: a client constructed without a transport makes one of its own for
\* each request, which no other request in flight uses, and none of them is
\* open once its request is over, however the request ended; a client
\* constructed with a transport sends every request through it, makes none
\* of its own and never closes it.
C6_TransportScope ==
    IF self[MainInst]._client = NoTransport
    THEN /\ opened \subseteq {req[t].transport : t \in {u \in Tasks : InFlight(u)}}
         /\ \A t \in Tasks :
                pc[t] = "awaiting"
                    => /\ req[t].transport \in opened
                       /\ req[t].transport # CallerTransport
                       /\ \A u \in Tasks \ {t} :
                              InFlight(u) => req[u].transport # req[t].transport
    ELSE /\ opened = {}
         /\ ~ext_closed
         /\ \A t \in Tasks : InFlight(t) => req[t].transport = self[MainInst]._client

\* Two requests of a client without a transport are over, one refused by
\* the server and one that never reached it, and nothing is open.
C6_Witness ==
    /\ self[MainInst]._client = NoTransport
    /\ opened = {}
    /\ \A t \in Tasks : pc[t] = "done" /\ nreq[t] = 1
    /\ got["t1"].t = "neterr"
    /\ got["t2"].t = "http" /\ got["t2"].status = 500
    /\ \E t \in Tasks : Raised(result[t], "WallabagApiError")

\* Whether the call passes the checks it makes before it sends anything.
PassesChecks(t) ==
    IF call[t].op = "authenticate"
    THEN \A c \in Creds :
             (IF call[t].args[c] \in {None, ""} THEN env[EnvCreds[c]]
              ELSE call[t].args[c]) # None
    ELSE Truthy(pre[t].token)

\* C7: a call that passes its checks has issued exactly one request, and it
\* is over only once that request has been answered (or has failed); a call
\* that does not pass them issues none; a request that fails ends the call
\* with an exception, and no call issues a second request.
C7_OneRequestPerCall ==
    \A t \in Tasks :
        call[t].op # "none" =>
            /\ nreq[t] = IF PassesChecks(t) THEN 1 ELSE 0
            /\ pc[t] = "done" => (got[t] # NoResult <=> PassesChecks(t))
            /\ InFlight(t) => PassesChecks(t)
            /\ (pc[t] = "done" /\ got[t] \in FailedResponses) => result[t].t = "raise"

\* A read operation and an authenticate have each ended with the failure
\* of their one request.
C7_Witness ==
    /\ \A t \in Tasks : pc[t] = "done" /\ nreq[t] = 1 /\ got[t] \in FailedResponses
    /\ call["t1"].op = "authenticate"
    /\ call["t2"].op = "search_articles"
    /\ Raised(result["t1"], "WallabagAuthError")
    /\ Raised(result["t2"], "WallabagApiError")

\* Whether str contains sub.
Contains(str, sub) ==
    \E k \in 1..(Len(str) - Len(sub) + 1) : SubSeq(str, k, k + Len(sub) - 1) = sub

\* The answer grants a token: 2xx, a JSON object, a non-empty access_token.
GrantsToken(resp) ==
    /\ resp.t = "http"
    /\ IsSuccess(resp.status)
    /\ resp.body.val # NotJson
    /\ IsDict(resp.body.val)
    /\ "access_token" \in DOMAIN resp.body.val.v
    /\ Truthy(PyStr(resp.body.val.v["access_token"]))

\* C3: an authenticate whose credentials resolve returns True and stores
\* the token exactly when the answer grants one; on any other answer it
\* raises WallabagAuthError and nothing else, and on a non-2xx answer the
\* message contains the status code.
C3_AuthenticateOutcomes ==
    \A t \in Tasks :
        (call[t].op = "authenticate" /\ pc[t] = "done" /\ got[t] # NoResult)
            => IF GrantsToken(got[t])
               THEN /\ result[t] = Return(JBool(TRUE))
                    /\ self[call[t].inst].access_token =
                           got[t].body.val.v["access_token"].v
               ELSE /\ Raised(result[t], "WallabagAuthError")
                    /\ (got[t].t = "http" /\ ~IsSuccess(got[t].status))
                           => Contains(result[t].msg, Str(got[t].status))

\* The answer is 2xx and JSON, and there is no items under an _embedded of it.
LacksItems(resp) ==
    /\ resp.t = "http"
    /\ IsSuccess(resp.status)
    /\ resp.body.val # NotJson
    /\ ~(/\ IsDict(resp.body.val)
         /\ "_embedded" \in DOMAIN resp.body.val.v
         /\ IsDict(resp.body.val.v["_embedded"])
         /\ "items" \in DOMAIN resp.body.val.v["_embedded"].v)

\* C8: get_articles and search_articles return the empty list, and raise
\* nothing, when the 2xx JSON answer has no _embedded.items.
C8_NoItemsIsEmptyList ==
    \A t \in Tasks :
        (/\ call[t].op \in {"get_articles", "search_articles"}
         /\ pc[t] = "done"
         /\ got[t] # NoResult
         /\ LacksItems(got[t]))
            => result[t] = Return(<<>>)

\* C10: get_articles sends since as "0" when the request has no since, and
\* as the decimal of the timestamp's whole epoch seconds when it has one.
C10_SinceIsWholeSeconds ==
    \A t \in Tasks :
        (call[t].op = "get_articles" /\ pc[t] = "awaiting")
            => req[t].params.since =
                   IF call[t].args.since = Nothing THEN "0"
                   ELSE Str(call[t].args.since[1].days * 86400
                                + call[t].args.since[1].seconds)

\* C2: a tool that has ended has returned an envelope, a JSON object with
\* success in it, whatever went wrong in it; it has raised nothing.
C2_ToolsAlwaysReturnEnvelope ==
    \A t \in Tasks :
        (tool[t].name # "none" /\ pc[t] = "done")
            => /\ result[t].t = "return"
               /\ IsDict(result[t].v)
               /\ "success" \in DOMAIN result[t].v.v

\* C9: a server object that has the five required fields becomes an
\* Article whichever of the seven optional fields it leaves out: a boolean
\* left out reads false, any other field left out reads null.
C9_OptionalFieldsMayBeOmitted ==
    fout # NoResult
        => /\ fout.t = "return"
           /\ \A f \in fin.omitted :
                  fout.v[f] = IF f \in {"is_archived", "is_starred"}
                              THEN JBool(FALSE) ELSE JNull

\* C11: every request of get_articles and of search_articles carries
\* perPage: the decimal string of the request's count when a count is given
\* and is not 0, and "100" when the count is absent or 0.
C11_PerPageIsCountOrHundred ==
    \A t \in Tasks :
        (call[t].op \in {"get_articles", "search_articles"} /\ pc[t] = "awaiting")
            => /\ "perPage" \in DOMAIN req[t].params
               /\ req[t].params.perPage =
                      IF call[t].args.count = Nothing \/ call[t].args.count[1] = 0
                      THEN "100"
                      ELSE Str(call[t].args.count[1])

\* search_articles has sent its request with count=0, as perPage=100.
C11_Witness ==
    /\ call["t1"].op = "search_articles"
    /\ pc["t1"] = "awaiting"
    /\ call["t1"].args.count = Some(0)
    /\ req["t1"].params.perPage = "100"

\* The task is inside initialize_client(), awaiting its authenticate.
Initializing(t) ==
    /\ tool[t].name # "none"
    /\ call[t].op = "authenticate"
    /\ InFlight(t)

\* C12: the tools construct and authenticate the client at most once: no two
\* invocations are inside initialize_client() together, at most one
\* instance is ever authenticated, and a tool that reads does so through
\* the instance the global `client` holds.
C12_ClientInitializedOnce ==
    /\ \A t, u \in Tasks : (Initializing(t) /\ Initializing(u)) => t = u
    /\ Cardinality({i \in DOMAIN self : Truthy(last_ok[i])}) <= 1
    /\ \A t \in Tasks :
           (tool[t].name # "none" /\ call[t].op \in ReadOps /\ InFlight(t))
               => call[t].inst = client

\* C13: an authenticate that fails leaves access_token as it was, so once an
\* authenticate of a client has returned True the client's access_token is
\* set in every later state, and a read operation called from then on does
\* not raise the WallabagAuthError of a token that is not set.
C13_TokenStaysSet ==
    /\ \A i \in DOMAIN self :
           Truthy(last_ok[i]) => Truthy(self[i].access_token)
    /\ \A t \in Tasks :
           (call[t].op \in ReadOps /\ Truthy(pre[t].ok) /\ pc[t] = "done")
               => ~(Raised(result[t], "WallabagAuthError") /\ nreq[t] = 0)

====
